---- MODULE Spec2Model ----
(***************************************************************************)
(* Model of the client-side job queue of src/frontend/src/main.ts: the job *)
(* store (the insertion-ordered Map `jobs`), the scheduler (startNextJobs),*)
(* the worker (runJob, split at its await), the click handlers for remove  *)
(* and retry, file admission (addFiles) and the archive export             *)
(* (downloadAllReadyJobs, split at the await of zip.generateAsync).        *)
(* JavaScript runs every handler and every continuation to completion, so  *)
(* each of them is one action.                                             *)
(***************************************************************************)
EXTENDS Integers, Sequences, FiniteSets, TLC

VARIABLES
  jobs,           \* the Map `jobs`: its values in insertion order
  nextId,         \* how many ids crypto.randomUUID() has handed out
  activeWorkers,  \* the counter `activeWorkers`
  workers,        \* per job id, the runJob invocations suspended at their await
  readyJobCount,  \* the variable `readyJobCount`
  summary,        \* textContent of summaryActive / summaryDone / summaryError
  button,         \* downloadAllButton: its disabled flag and dataset.busy
  objectUrls,     \* object URLs created and not yet revoked
  exports,        \* downloadAllReadyJobs invocations awaiting generateAsync, each with its zip
  event,          \* the event whose handler or continuation ran last
  announced,      \* the messages that handler passed to announce(), in order
  delivered,      \* the archive that handler handed to the browser as a download
  transitions     \* the job.status assignments, creations and deletions it made, in order

vars == <<jobs, nextId, activeWorkers, workers, readyJobCount, summary, button,
          objectUrls, exports, event, announced, delivered, transitions>>

----------------------------------------------------------------------------
(* Program constants *)

MAX_FILE_SIZE_MB == 12
MAX_FILE_SIZE_BYTES == MAX_FILE_SIZE_MB * 1024 * 1024
MAX_PARALLEL_JOBS == 2

(* Bounds of the model *)

MaxJobs == 3        \* jobs created in one behaviour of SpecQueue
MaxBatch == 3       \* files in one addFiles call of SpecQueue
MaxExportJobs == 2  \* jobs created, and files in one addFiles call, in one behaviour of Spec
MaxExports == 2     \* exports awaiting generateAsync at once
MaxOrderJobs == 4   \* jobs created, one file at a time, in one behaviour of SpecOrder

----------------------------------------------------------------------------
(* Strings that the code inspects are sequences of characters *)

StartsWith(s, p) == Len(s) >= Len(p) /\ SubSeq(s, 1, Len(p)) = p

ImagePrefix == <<"i","m","a","g","e","/">>

BgRemovedSuffix == <<"-","b","g","-","r","e","m","o","v","e","d",".","p","n","g">>

FallbackBaseName == <<"e","l","t","a","v","o","l","i","t","o","t","t","-","h","a","t","t","e","r">>

UnknownErrorMessage == "Ismeretlen hiba tortent."

\* name.replace(/\.[^.]+$/, ''): the match, if any, starts at the last dot,
\* and there is one only when that dot is not the last character.
StripExtension(name) ==
  LET dots == {i \in 1..Len(name) : name[i] = "."}
      last == IF dots = {} THEN 0 ELSE CHOOSE i \in dots : \A k \in dots : k <= i
  IN IF last = 0 \/ last = Len(name) THEN name ELSE SubSeq(name, 1, last - 1)

\* `${baseName}-bg-removed.png` with baseName = stripped name || fallback
EntryName(name) ==
  LET stripped == StripExtension(name)
      baseName == IF stripped = <<>> THEN FallbackBaseName ELSE stripped
  IN baseName \o BgRemovedSuffix

----------------------------------------------------------------------------
(* Inputs *)

PhotoFile == [name |-> <<"a",".","p","n","g">>,
              type |-> <<"i","m","a","g","e","/","p","n","g">>,
              size |-> MAX_FILE_SIZE_BYTES]
DotFile   == [name |-> <<".","p","n","g">>,
              type |-> <<"i","m","a","g","e","/","p","n","g">>,
              size |-> 1024]
BigFile   == [name |-> <<"c",".","p","n","g">>,
              type |-> <<"i","m","a","g","e","/","p","n","g">>,
              size |-> MAX_FILE_SIZE_BYTES + 1]
TextFile  == [name |-> <<"d",".","t","x","t">>,
              type |-> <<"t","e","x","t","/","p","l","a","i","n">>,
              size |-> 1024]
Files == {PhotoFile, BigFile, TextFile}

Batches == UNION {[1..n -> Files] : n \in 1..MaxBatch}

ExportFiles == {PhotoFile, DotFile}

ExportBatches == UNION {[1..n -> ExportFiles] : n \in 1..MaxExportJobs}

\* one image at a time
SingleBatches == {<<PhotoFile>>}

\* what the promise of performBackgroundRemoval settles with
Outcomes == {[kind |-> "blob",  message |-> ""],
             [kind |-> "error", message |-> "model failed"],
             [kind |-> "error", message |-> ""],
             [kind |-> "other", message |-> ""]}

\* the scheduler sees only whether the promise resolved or rejected
QueueOutcomes == {[kind |-> "blob",  message |-> ""],
                  [kind |-> "error", message |-> "model failed"]}

JobIds ==
  1..(CHOOSE n \in {MaxJobs, MaxExportJobs, MaxOrderJobs} :
        \A m \in {MaxJobs, MaxExportJobs, MaxOrderJobs} : m <= n)

----------------------------------------------------------------------------
(* The store *)

\* an optional field is <<>> (undefined) or <<value>>
PreviewUrlOf(id) == <<"blob:", id, "preview">>
ResultUrlOf(id)  == <<"blob:", id, "result">>

Ids(js) == {js[i].id : i \in 1..Len(js)}

HasJob(js, id) == id \in Ids(js)

IndexOf(js, id) == CHOOSE i \in 1..Len(js) : js[i].id = id

GetJob(js, id) == js[IndexOf(js, id)]

WithStatus(js, st) == {i \in 1..Len(js) : js[i].status = st}

DeleteJob(js, id) == SelectSeq(js, LAMBDA j : j.id # id)

Note(S, id, from, to, by) ==
  [S EXCEPT !.transitions = Append(@, <<id, from, to, by>>)]

announce(S, message) == [S EXCEPT !.announced = Append(@, message)]

createJob(id, file) ==
  [id |-> id, file |-> file, status |-> "pending",
   previewUrl |-> PreviewUrlOf(id),
   resultUrl |-> <<>>, resultBlob |-> <<>>, error |-> <<>>]

updateBatchDownloadState(S) ==
  [S EXCEPT !.button.disabled = (S.readyJobCount = 0)]

updateSummary(S) ==
  LET ready == Cardinality(WithStatus(S.jobs, "ready"))
      T == [S EXCEPT
             !.summary = [active |-> Cardinality(WithStatus(S.jobs, "pending")
                                                 \cup WithStatus(S.jobs, "processing")),
                          done   |-> ready,
                          error  |-> Cardinality(WithStatus(S.jobs, "error"))],
             !.readyJobCount = ready]
  IN updateBatchDownloadState(T)

\* mutant: the result URL is not revoked
cleanupJobUrls_KeepsResult(S, job) ==
  [S EXCEPT !.objectUrls = @ \ {job.previewUrl}]

cleanupJobUrls(S, job) ==
  LET result == IF job.resultUrl # <<>> /\ job.resultUrl[1][1] = "blob:"
                THEN {job.resultUrl[1]} ELSE {}
  IN [S EXCEPT !.objectUrls = (@ \ {job.previewUrl}) \ result]

----------------------------------------------------------------------------
(* Worker and scheduler *)

\* mutant: starting a run does not count it
runJobStart_NoCount(S, id) ==
  LET i == IndexOf(S.jobs, id)
      T == [S EXCEPT !.jobs[i].status = "processing",
                     !.jobs[i].error = <<>>,
                     !.workers[id] = @ + 1]
  IN updateSummary(Note(T, id, S.jobs[i].status, "processing", "admit"))

\* mutant: a started job keeps the status it had
runJobStart_KeepsStatus(S, id) ==
  LET i == IndexOf(S.jobs, id)
      T == [S EXCEPT !.activeWorkers = @ + 1,
                     !.jobs[i].error = <<>>,
                     !.workers[id] = @ + 1]
  IN updateSummary(Note(T, id, S.jobs[i].status, "processing", "admit"))

\* runJob up to its await: lines 315-321
runJobStart(S, id) ==
  LET i == IndexOf(S.jobs, id)
      T == [S EXCEPT !.activeWorkers = @ + 1,
                     !.jobs[i].status = "processing",
                     !.jobs[i].error = <<>>,
                     !.workers[id] = @ + 1]
  IN updateSummary(Note(T, id, S.jobs[i].status, "processing", "admit"))

RECURSIVE startNextJobs_OffByOne(_)
\* mutant: the admission test is <= instead of <
startNextJobs_OffByOne(S) ==
  IF S.activeWorkers <= MAX_PARALLEL_JOBS /\ WithStatus(S.jobs, "pending") # {}
  THEN LET first == CHOOSE i \in WithStatus(S.jobs, "pending") :
                      \A k \in WithStatus(S.jobs, "pending") : i <= k
       IN startNextJobs_OffByOne(runJobStart(S, S.jobs[first].id))
  ELSE S

\* mutant: a call starts at most one job
startNextJobs_Once(S) ==
  IF S.activeWorkers < MAX_PARALLEL_JOBS /\ WithStatus(S.jobs, "pending") # {}
  THEN LET first == CHOOSE i \in WithStatus(S.jobs, "pending") :
                      \A k \in WithStatus(S.jobs, "pending") : i <= k
       IN runJobStart(S, S.jobs[first].id)
  ELSE S

\* mutant: the most recently inserted pending job is started first
RECURSIVE startNextJobs_NewestFirst(_)
startNextJobs_NewestFirst(S) ==
  IF S.activeWorkers < MAX_PARALLEL_JOBS /\ WithStatus(S.jobs, "pending") # {}
  THEN LET last == CHOOSE i \in WithStatus(S.jobs, "pending") :
                     \A k \in WithStatus(S.jobs, "pending") : k <= i
       IN startNextJobs_NewestFirst(runJobStart(S, S.jobs[last].id))
  ELSE S

RECURSIVE startNextJobs(_)
startNextJobs(S) ==
  IF S.activeWorkers < MAX_PARALLEL_JOBS /\ WithStatus(S.jobs, "pending") # {}
  THEN LET first == CHOOSE i \in WithStatus(S.jobs, "pending") :
                      \A k \in WithStatus(S.jobs, "pending") : i <= k
       IN startNextJobs(runJobStart(S, S.jobs[first].id))
  ELSE S

\* mutant: a rejection that is no Error leaves job.error undefined
errorText_OnlyErrors(outcome) ==
  IF outcome.kind = "error" THEN <<outcome.message>> ELSE <<>>

\* error instanceof Error ? error.message : 'Ismeretlen hiba tortent.'
errorText(outcome) ==
  IF outcome.kind = "error" THEN <<outcome.message>> ELSE <<UnknownErrorMessage>>

\* runJob from the resumption of its await to updateSummary: lines 322-335.
\* A job that is no longer in the Map is still mutated through the closure's
\* reference, which nothing else can observe.
runJobOutcome(S, id, outcome) ==
  LET inStore == HasJob(S.jobs, id)
      i == IF inStore THEN IndexOf(S.jobs, id) ELSE 0
      from == IF inStore THEN S.jobs[i].status ELSE "deleted"
      S0 == [S EXCEPT !.workers[id] = @ - 1]
      S1 == IF outcome.kind = "blob"
            THEN LET old == IF inStore /\ S.jobs[i].resultUrl # <<>>
                               /\ S.jobs[i].resultUrl[1][1] = "blob:"
                            THEN {S.jobs[i].resultUrl[1]} ELSE {}
                     U == [S0 EXCEPT !.objectUrls = (@ \ old) \cup {ResultUrlOf(id)}]
                     V == IF inStore
                          THEN Note([U EXCEPT !.jobs[i].resultBlob = <<id>>,
                                              !.jobs[i].resultUrl = <<ResultUrlOf(id)>>,
                                              !.jobs[i].status = "ready"],
                                    id, from, "ready", "settle")
                          ELSE U
                 IN announce(V, <<"done", id>>)
            ELSE LET V == IF inStore
                          THEN Note([S0 EXCEPT !.jobs[i].status = "error",
                                               !.jobs[i].error = errorText(outcome)],
                                    id, from, "error", "settle")
                          ELSE S0
                 IN announce(V, <<"failed", id>>)
  IN updateSummary(S1)

\* mutant: a settled run keeps its slot
releaseWorker_Keeps(S) == S

\* activeWorkers = Math.max(0, activeWorkers - 1): line 336
releaseWorker(S) ==
  [S EXCEPT !.activeWorkers = IF @ - 1 > 0 THEN @ - 1 ELSE 0]

\* mutant: the slot is released on success only
runJobSettled_LeakOnFailure(S, id, outcome) ==
  IF outcome.kind = "blob" THEN releaseWorker(runJobOutcome(S, id, outcome))
  ELSE runJobOutcome(S, id, outcome)

\* runJob from the resumption of its await to the decrement: lines 322-336
runJobSettled(S, id, outcome) == releaseWorker(runJobOutcome(S, id, outcome))

\* mutant: the finally block does not call startNextJobs
runJobSettle_NoReadmit(S, id, outcome) == runJobSettled(S, id, outcome)

\* the whole continuation: lines 322-338
runJobSettle(S, id, outcome) == startNextJobs(runJobSettled(S, id, outcome))

----------------------------------------------------------------------------
(* File admission *)

isImage(file) == StartsWith(file.type, ImagePrefix)

\* mutant: the size test is >= instead of >
tooLarge_Inclusive(file) == file.size >= MAX_FILE_SIZE_BYTES

tooLarge(file) == file.size > MAX_FILE_SIZE_BYTES

\* the new job of lines 203-205
admit(A, file) ==
  LET id == A.st.nextId + 1
      job == createJob(id, file)
      T == [A.st EXCEPT !.nextId = id,
                        !.jobs = Append(@, job),
                        !.objectUrls = @ \cup {job.previewUrl}]
  IN [A EXCEPT !.st = Note(T, id, "none", "pending", "create"), !.added = @ + 1]

\* mutant: a file that is no image counts as rejected
addOne_CountsNonImage(A, file) ==
  IF ~isImage(file) \/ tooLarge(file) THEN [A EXCEPT !.rejected = @ + 1]
  ELSE admit(A, file)

\* the callback of the forEach; A carries the state and the locals added and rejected
addOne(A, file) ==
  IF ~isImage(file) THEN A
  ELSE IF tooLarge(file) THEN [A EXCEPT !.rejected = @ + 1]
  ELSE admit(A, file)

RECURSIVE addEach(_, _, _)
\* the forEach of addFiles from file k on
addEach(A, batch, k) ==
  IF k > Len(batch) THEN A ELSE addEach(addOne(A, batch[k]), batch, k + 1)

addFiles(S, batch) ==
  LET r == addEach([st |-> S, added |-> 0, rejected |-> 0], batch, 1)
      S1 == IF r.added > 0
            THEN startNextJobs(announce(updateSummary(r.st), <<"added", r.added>>))
            ELSE r.st
  IN IF r.rejected > 0 THEN announce(S1, <<"rejected", r.rejected>>) ELSE S1

\* files of the batch that addFiles turns into jobs
Accepted(batch) ==
  {k \in 1..Len(batch) : StartsWith(batch[k].type, ImagePrefix)
                         /\ batch[k].size <= MAX_FILE_SIZE_BYTES}

----------------------------------------------------------------------------
(* The jobList click handler *)

\* mutant: remove leaves the summary as it was
removeClick_NoSummary(S, id) ==
  IF ~HasJob(S.jobs, id) THEN S
  ELSE LET job == GetJob(S.jobs, id) IN
       IF job.status = "processing" THEN S
       ELSE LET S1 == cleanupJobUrls(S, job)
                S2 == Note([S1 EXCEPT !.jobs = DeleteJob(@, id)],
                           id, job.status, "deleted", "remove")
            IN announce(S2, <<"removed", id>>)

removeClick(S, id) ==
  IF ~HasJob(S.jobs, id) THEN S
  ELSE LET job == GetJob(S.jobs, id) IN
       IF job.status = "processing" THEN S
       ELSE LET S1 == cleanupJobUrls(S, job)
                S2 == Note([S1 EXCEPT !.jobs = DeleteJob(@, id)],
                           id, job.status, "deleted", "remove")
            IN announce(updateSummary(S2), <<"removed", id>>)

\* mutant: retry hands the job to runJob itself
retryClick_RunsDirectly(S, id) ==
  IF ~HasJob(S.jobs, id) THEN S
  ELSE IF GetJob(S.jobs, id).status # "error" THEN S
  ELSE runJobStart(S, id)

\* mutant: retry does not look at the status
retryClick_NoGuard(S, id) ==
  IF ~HasJob(S.jobs, id) THEN S
  ELSE LET i == IndexOf(S.jobs, id)
           S1 == Note([S EXCEPT !.jobs[i].status = "pending",
                                !.jobs[i].error = <<>>],
                      id, S.jobs[i].status, "pending", "retry")
       IN startNextJobs(updateSummary(S1))

retryClick(S, id) ==
  IF ~HasJob(S.jobs, id) THEN S
  ELSE LET i == IndexOf(S.jobs, id) IN
       IF S.jobs[i].status # "error" THEN S
       ELSE LET S1 == Note([S EXCEPT !.jobs[i].status = "pending",
                                     !.jobs[i].error = <<>>],
                           id, S.jobs[i].status, "pending", "retry")
            IN startNextJobs(updateSummary(S1))

----------------------------------------------------------------------------
(* Archive export *)

\* JSZip's file(name, data): a second entry of the same name replaces the first
zipFile(zip, name, blob) ==
  IF \E i \in 1..Len(zip) : zip[i].name = name
  THEN [i \in 1..Len(zip) |->
          IF zip[i].name = name THEN [name |-> name, blob |-> blob] ELSE zip[i]]
  ELSE Append(zip, [name |-> name, blob |-> blob])

RECURSIVE zipEach(_, _, _)
\* the for loop of lines 363-373 over the snapshot readyJobs, from job k on.
\* Every ready job has its resultBlob (C8_ResultAndError), so the fetch of
\* lines 365-369 never runs and the loop has no await; a job without a blob
\* is passed over as by line 370.
zipEach(zip, readyJobs, k) ==
  IF k > Len(readyJobs) THEN zip
  ELSE LET job == readyJobs[k] IN
       IF job.resultBlob = <<>> THEN zipEach(zip, readyJobs, k + 1)
       ELSE zipEach(zipFile(zip, EntryName(job.file.name), job.resultBlob[1]),
                    readyJobs, k + 1)

\* downloadAllReadyJobs up to the await of generateAsync: lines 353-374
downloadAllReadyJobs(S) ==
  IF S.readyJobCount = 0 THEN S
  ELSE LET S1 == [S EXCEPT !.button = [disabled |-> TRUE, busy |-> TRUE]]
           readyJobs == SelectSeq(S.jobs, LAMBDA j :
                          j.status = "ready" /\ (j.resultBlob # <<>> \/ j.resultUrl # <<>>))
       IN IF readyJobs = <<>>
          THEN updateBatchDownloadState([S1 EXCEPT !.button.busy = FALSE])
          ELSE [S1 EXCEPT !.exports = Append(@, zipEach(<<>>, readyJobs, 1))]

\* mutant: with nothing to export the handler reports an export failure
downloadAllClick_ReportsFailure(S) ==
  IF S.readyJobCount = 0 THEN announce(S, <<"zipFailed", 0>>) ELSE downloadAllReadyJobs(S)

downloadAllClick(S) ==
  IF S.readyJobCount = 0 THEN S ELSE downloadAllReadyJobs(S)

\* mutant: a failed export marks the ready jobs as failed
downloadAllSettle_FlagsJobs(S, n, ok) ==
  LET S0 == [S EXCEPT !.exports = SubSeq(@, 1, n - 1) \o SubSeq(@, n + 1, Len(@))]
      S1 == IF ok
            THEN announce([S0 EXCEPT !.delivered = <<S.exports[n]>>], <<"zipStarted", 0>>)
            ELSE announce([S0 EXCEPT !.jobs = [k \in 1..Len(@) |->
                             IF @[k].status = "ready"
                             THEN [@[k] EXCEPT !.status = "error"] ELSE @[k]]],
                          <<"zipFailed", 0>>)
  IN updateBatchDownloadState([S1 EXCEPT !.button.busy = FALSE])

\* downloadAllReadyJobs from the settling of generateAsync: lines 375-391.
\* The object URL of the archive and its timed revocation are left out.
downloadAllSettle(S, n, ok) ==
  LET S0 == [S EXCEPT !.exports = SubSeq(@, 1, n - 1) \o SubSeq(@, n + 1, Len(@))]
      S1 == IF ok
            THEN announce([S0 EXCEPT !.delivered = <<S.exports[n]>>], <<"zipStarted", 0>>)
            ELSE announce(S0, <<"zipFailed", 0>>)
  IN updateBatchDownloadState([S1 EXCEPT !.button.busy = FALSE])

----------------------------------------------------------------------------
(* The state machine *)

Cur ==
  [jobs |-> jobs, nextId |-> nextId, activeWorkers |-> activeWorkers,
   workers |-> workers, readyJobCount |-> readyJobCount, summary |-> summary,
   button |-> button, objectUrls |-> objectUrls, exports |-> exports,
   announced |-> <<>>, delivered |-> <<>>, transitions |-> <<>>]

Install(T, ev) ==
  /\ jobs' = T.jobs
  /\ nextId' = T.nextId
  /\ activeWorkers' = T.activeWorkers
  /\ workers' = T.workers
  /\ readyJobCount' = T.readyJobCount
  /\ summary' = T.summary
  /\ button' = T.button
  /\ objectUrls' = T.objectUrls
  /\ exports' = T.exports
  /\ announced' = T.announced
  /\ delivered' = T.delivered
  /\ transitions' = T.transitions
  /\ event' = ev

\* kind of event, the job it is about, and fileList.length for addFiles
Event(kind, id, files) == [kind |-> kind, id |-> id, files |-> files]

Init ==
  /\ jobs = <<>>
  /\ nextId = 0
  /\ activeWorkers = 0
  /\ workers = [id \in JobIds |-> 0]
  /\ readyJobCount = 0
  /\ summary = [active |-> 0, done |-> 0, error |-> 0]
  /\ button = [disabled |-> TRUE, busy |-> FALSE]
  /\ objectUrls = {}
  /\ exports = <<>>
  /\ event = Event("load", 0, 0)
  /\ announced = <<>>
  /\ delivered = <<>>
  /\ transitions = <<>>

\* the change handler of fileInput and the drop handler of dropZone
AddFilesFrom(batches, cap) ==
  \E batch \in batches :
    /\ nextId + Cardinality(Accepted(batch)) <= cap
    /\ \E T \in {addFiles(Cur, batch)} : Install(T, Event("addFiles", 0, Len(batch)))

AddFiles == AddFilesFrom(ExportBatches, MaxExportJobs)

AddFilesQueue == AddFilesFrom(Batches, MaxJobs)

AddFileOrder == AddFilesFrom(SingleBatches, MaxOrderJobs)

Remove ==
  \E id \in Ids(jobs) :
    \E T \in {removeClick(Cur, id)} : Install(T, Event("remove", id, 0))

Retry ==
  \E id \in Ids(jobs) :
    \E T \in {retryClick(Cur, id)} : Install(T, Event("retry", id, 0))

\* the continuation of the runJob of one job when its await settles
SettleJob(id, outcomes) ==
  \E outcome \in outcomes :
    /\ workers[id] > 0
    /\ \E T \in {runJobSettle(Cur, id, outcome)} : Install(T, Event("settle", id, 0))

SettleWith(outcomes) == \E id \in JobIds : SettleJob(id, outcomes)

Settle == SettleWith(Outcomes)

SettleQueue == SettleWith(QueueOutcomes)

DownloadAll ==
  /\ Len(exports) < MaxExports
  /\ \E T \in {downloadAllClick(Cur)} : Install(T, Event("downloadAll", 0, 0))

ZipSettle ==
  \E n \in 1..Len(exports) : \E ok \in BOOLEAN :
    \E T \in {downloadAllSettle(Cur, n, ok)} : Install(T, Event("zipSettle", 0, 0))

\* the whole program
Next == AddFiles \/ Remove \/ Retry \/ Settle \/ DownloadAll \/ ZipSettle

Spec == Init /\ [][Next]_vars

\* the queue alone, with more jobs: the download-all button is never pressed
NextQueue == AddFilesQueue \/ Remove \/ Retry \/ SettleQueue

SpecQueue == Init /\ [][NextQueue]_vars

\* the queue fed one image at a time, with room for two jobs to wait
NextOrder == AddFileOrder \/ Remove \/ Retry \/ SettleQueue

SpecOrder == Init /\ [][NextOrder]_vars

\* the step that SettleJob(id, QueueOutcomes) takes, told by the event it
\* leaves: such a step is possible exactly when a run of job id is in flight,
\* and the steps of NextOrder that leave this event are the SettleJob steps
SettleStepOf(id) == workers[id] > 0 /\ event' = Event("settle", id, 0)

\* every call of performBackgroundRemoval settles
SpecOrderFair ==
  SpecOrder /\ \A id \in JobIds : WF_event(SettleStepOf(id))

----------------------------------------------------------------------------
(* Vocabulary of the properties *)

ProgramVars == <<jobs, nextId, activeWorkers, workers, readyJobCount, summary,
                 button, objectUrls, exports>>

NumWith(js, st) == Cardinality(WithStatus(js, st))

Statuses(js) == [k \in 1..Len(js) |-> js[k].status]

FirstPending(js) ==
  CHOOSE i \in WithStatus(js, "pending") : \A k \in WithStatus(js, "pending") : i <= k

\* the status of a job id as the store shows it
Seen(js, issued, id) ==
  IF HasJob(js, id) THEN GetJob(js, id).status
  ELSE IF id > issued THEN "none" ELSE "deleted"

AllowedTransitions ==
  {<<"none", "pending", "create">>,
   <<"pending", "processing", "admit">>,
   <<"processing", "ready", "settle">>,
   <<"processing", "error", "settle">>,
   <<"error", "pending", "retry">>,
   <<"pending", "deleted", "remove">>,
   <<"ready", "deleted", "remove">>,
   <<"error", "deleted", "remove">>}

CauseMatches(t, ev) ==
  CASE t[4] = "create" -> ev.kind = "addFiles"
    [] t[4] = "admit"  -> ev.kind \in {"addFiles", "retry", "settle"}
    [] t[4] = "settle" -> ev.kind = "settle" /\ ev.id = t[1]
    [] t[4] = "retry"  -> ev.kind = "retry" /\ ev.id = t[1]
    [] t[4] = "remove" -> ev.kind = "remove" /\ ev.id = t[1]
    [] OTHER -> FALSE

LogOf(log, id) == SelectSeq(log, LAMBDA t : t[1] = id)

\* the logged changes of one job lead from its status before to its status after
Chained(log, before, after) ==
  IF log = <<>> THEN before = after
  ELSE /\ log[1][2] = before
       /\ \A k \in 1..(Len(log) - 1) : log[k][3] = log[k + 1][2]
       /\ log[Len(log)][3] = after

\* the admission boundary: type starts with "image/" and size within the limit
Acceptable(file) ==
  /\ Len(file.type) >= Len(ImagePrefix)
  /\ SubSeq(file.type, 1, Len(ImagePrefix)) = ImagePrefix
  /\ file.size <= MAX_FILE_SIZE_BYTES

ValidFiles(batch) == SelectSeq(batch, Acceptable)

\* image files over the size limit
OversizedImages(batch) ==
  SelectSeq(batch, LAMBDA f : /\ Len(f.type) >= Len(ImagePrefix)
                              /\ SubSeq(f.type, 1, Len(ImagePrefix)) = ImagePrefix
                              /\ f.size > MAX_FILE_SIZE_BYTES)

\* the count of the rejection message among the announcements, 0 without one
Reported(msgs) ==
  LET ks == {k \in 1..Len(msgs) : msgs[k][1] = "rejected"}
  IN IF ks = {} THEN 0 ELSE msgs[CHOOSE k \in ks : TRUE][2]

\* jobs created according to the log
Created(log) == Cardinality({k \in 1..Len(log) : log[k][4] = "create"})

WorkConserving ==
  WithStatus(jobs, "pending") # {} => NumWith(jobs, "processing") >= MAX_PARALLEL_JOBS

\* what the queue side of a handler's result consists of
QueueOf(S) ==
  [jobs |-> S.jobs, nextId |-> S.nextId, activeWorkers |-> S.activeWorkers,
   workers |-> S.workers, readyJobCount |-> S.readyJobCount, summary |-> S.summary,
   objectUrls |-> S.objectUrls, announced |-> S.announced,
   transitions |-> S.transitions]

\* what an export must leave alone
FrameOf(S) == <<S.jobs, S.nextId, S.activeWorkers, S.workers>>

\* the same state with no export under way
Idle(S) ==
  [S EXCEPT !.exports = <<>>,
            !.button = [disabled |-> (S.readyJobCount = 0), busy |-> FALSE]]

\* the status job id had when the first k entries of a step's log had happened
StatusAt(log, k, before, id) ==
  LET mine == {n \in 1..k : log[n][1] = id}
  IN IF mine = {} THEN before
     ELSE log[CHOOSE n \in mine : \A o \in mine : o <= n][3]

\* the states in which the handlers enabled now call startNextJobs: addFiles
\* after its forEach (line 212), retry (line 295), runJob's finally (line 337)
CallSites ==
  {announce(updateSummary(addEach([st |-> Cur, added |-> 0, rejected |-> 0], batch, 1).st),
            <<"added", Cardinality(Accepted(batch))>>) :
     batch \in {b \in Batches : /\ Accepted(b) # {}
                                /\ nextId + Cardinality(Accepted(b)) <= MaxJobs}}
  \cup {updateSummary([Cur EXCEPT !.jobs[i].status = "pending", !.jobs[i].error = <<>>]) :
          i \in WithStatus(jobs, "error")}
  \cup {runJobSettled(Cur, id, outcome) :
          id \in {w \in JobIds : workers[w] > 0}, outcome \in QueueOutcomes}

Pending(id) == HasJob(jobs, id) /\ GetJob(jobs, id).status = "pending"

\* the last step was a retry that took effect on a job inserted before job id
OlderRetried(id) ==
  /\ event.kind = "retry" /\ transitions # <<>>
  /\ HasJob(jobs, event.id) /\ HasJob(jobs, id)
  /\ IndexOf(jobs, event.id) < IndexOf(jobs, id)

----------------------------------------------------------------------------
(* The claims *)

\* C1: in every reachable state at most MAX_PARALLEL_JOBS jobs of the store
\* have status processing.
C1_ParallelLimit == NumWith(jobs, "processing") <= MAX_PARALLEL_JOBS

\* the limit is reached while another job waits
C1_Witness ==
  NumWith(jobs, "processing") = MAX_PARALLEL_JOBS /\ WithStatus(jobs, "pending") # {}

\* C2: every status change a handler makes is one of the state machine's
\* transitions, made by the handler the machine names (admission by the
\* scheduler, settling by the job's own worker, retry, remove), and what the
\* store shows of each job before and after the handler is the chain of these
\* changes; so a retried job goes error -> pending -> processing, never
\* error -> processing.
C2_StateMachine ==
  [][ /\ \A k \in 1..Len(transitions') :
           LET t == transitions'[k]
           IN <<t[2], t[3], t[4]>> \in AllowedTransitions /\ CauseMatches(t, event')
      /\ \A id \in JobIds :
           Chained(LogOf(transitions', id), Seen(jobs, nextId, id), Seen(jobs', nextId', id))
    ]_vars

\* a retried job is admitted in the handler of the retry, through pending
C2_Witness ==
  \E id \in JobIds :
    /\ event = Event("retry", id, 0)
    /\ transitions = << <<id, "error", "pending", "retry">>,
                        <<id, "pending", "processing", "admit">> >>

\* C3: after every handler, a pending job exists only while MAX_PARALLEL_JOBS
\* jobs are processing; three images added to an empty store leave the first
\* two processing and the third pending; and when a worker settles while a job
\* is pending, the oldest pending job is processing after that same step.
C3_WorkConserving ==
  [][ /\ WorkConserving'
      /\ (jobs = <<>> /\ Len(jobs') = 3
            => Statuses(jobs') = <<"processing", "processing", "pending">>)
      /\ (event'.kind = "settle" /\ WithStatus(jobs, "pending") # {}
            => /\ jobs'[FirstPending(jobs)].id = jobs[FirstPending(jobs)].id
               /\ jobs'[FirstPending(jobs)].status = "processing"
               /\ GetJob(jobs', event'.id).status \in {"ready", "error"})
    ]_vars

\* one of two workers has settled and the third job took its place
C3_Witness ==
  /\ event.kind = "settle"
  /\ Len(jobs) = 3
  /\ Len(transitions) = 2
  /\ transitions[2] = <<jobs[3].id, "pending", "processing", "admit">>
  /\ NumWith(jobs, "processing") = MAX_PARALLEL_JOBS

C5_RetryGate ==
  [][ event'.kind = "retry" =>
        LET id == event'.id
            i == IndexOf(jobs, id)
            free == activeWorkers < MAX_PARALLEL_JOBS
        IN IF jobs[i].status = "error"
           THEN /\ transitions'[1] = <<id, "error", "pending", "retry">>
                /\ Len(jobs') = Len(jobs)
                /\ jobs'[i] = [jobs[i] EXCEPT
                                 !.status = IF free THEN "processing" ELSE "pending",
                                 !.error = <<>>]
                /\ \A k \in 1..Len(jobs) : k # i => jobs'[k] = jobs[k]
                /\ activeWorkers' = IF free THEN activeWorkers + 1 ELSE activeWorkers
           ELSE /\ UNCHANGED ProgramVars
                /\ announced' = <<>> /\ transitions' = <<>> /\ delivered' = <<>>
    ]_vars

\* a job in error was retried while both slots were taken: it waits as pending
C5_Witness ==
  /\ event.kind = "retry"
  /\ transitions = << <<event.id, "error", "pending", "retry">> >>
  /\ GetJob(jobs, event.id).status = "pending"
  /\ GetJob(jobs, event.id).error = <<>>

\* C6: whatever the state, addFiles appends to the store exactly the files of
\* the batch that are images within the size limit, in order, each as a job
\* created pending under an id never issued before, and keeps the jobs that
\* were there; a batch without such a file leaves store and scheduler alone.
C6_Admission ==
  \A batch \in Batches :
    LET valid == ValidFiles(batch) IN
    nextId + Len(valid) <= MaxJobs =>
      LET T == addFiles(Cur, batch)
          n == Len(jobs)
      IN /\ Len(T.jobs) = n + Len(valid)
         /\ \A k \in 1..n : T.jobs[k].id = jobs[k].id /\ T.jobs[k].file = jobs[k].file
         /\ \A k \in 1..Len(valid) :
              LET j == T.jobs[n + k] IN
              /\ j.file = valid[k]
              /\ j.id \notin 1..nextId
              /\ \A m \in 1..Len(T.jobs) : m # n + k => T.jobs[m].id # j.id
              /\ \E m \in 1..Len(T.transitions) :
                   T.transitions[m] = <<j.id, "none", "pending", "create">>
              /\ j.status \in {"pending", "processing"}
         /\ (valid = <<>> =>
               /\ T.jobs = jobs /\ T.nextId = nextId
               /\ T.activeWorkers = activeWorkers /\ T.workers = workers
               /\ T.readyJobCount = readyJobCount /\ T.summary = summary
               /\ T.objectUrls = objectUrls /\ T.transitions = <<>>)

\* of three files offered, one became the only job, one was reported as
\* oversized and one was dropped for its type
C6_Witness ==
  /\ event = Event("addFiles", 0, 3)
  /\ Created(transitions) = 1
  /\ Len(jobs) = 1
  /\ announced = << <<"added", 1>>, <<"rejected", 1>> >>

C9_OneEntryPerReadyJob ==
  (event.kind = "downloadAll" /\ readyJobCount > 0) =>
    LET zip == exports[Len(exports)] IN
    /\ Len(zip) = NumWith(jobs, "ready")
    /\ \A a, b \in 1..Len(zip) : a # b => zip[a].name # zip[b].name

C11_ExportFrame ==
  /\ FrameOf(downloadAllClick(Cur)) = FrameOf(Cur)
  /\ \A n \in 1..Len(exports) : \A ok \in BOOLEAN :
       FrameOf(downloadAllSettle(Cur, n, ok)) = FrameOf(Cur)
  /\ exports # <<>> =>
       /\ \A id \in JobIds :
            /\ workers[id] > 0 =>
                 \A outcome \in Outcomes :
                   QueueOf(runJobSettle(Cur, id, outcome))
                     = QueueOf(runJobSettle(Idle(Cur), id, outcome))
            /\ QueueOf(retryClick(Cur, id)) = QueueOf(retryClick(Idle(Cur), id))
            /\ QueueOf(removeClick(Cur, id)) = QueueOf(removeClick(Idle(Cur), id))
       /\ \A file \in ExportFiles :
            QueueOf(addFiles(Cur, <<file>>)) = QueueOf(addFiles(Idle(Cur), <<file>>))

\* an export has failed while one job was ready and another was processing
C11_Witness ==
  /\ event.kind = "zipSettle"
  /\ announced = << <<"zipFailed", 0>> >>
  /\ WithStatus(jobs, "ready") # {}
  /\ WithStatus(jobs, "processing") # {}

\* C12: in every reachable state each job id has at most one runJob invocation
\* between its start and its settle, and a job with an invocation in flight is
\* in the store with status processing.
C12_SingleRun ==
  \A id \in JobIds :
    /\ workers[id] <= 1
    /\ workers[id] = 1 => (HasJob(jobs, id) /\ GetJob(jobs, id).status = "processing")

\* a failed job was retried and runs again, next to the run of another job
C12_Witness ==
  /\ event.kind = "retry"
  /\ workers[event.id] = 1
  /\ \E other \in JobIds \ {event.id} : workers[other] = 1

\* C13: whenever a step admits a job, then at the moment of that admission no
\* job that stands earlier in the store's insertion order is pending; a job
\* that was retried stands where it was inserted.
C13_OldestFirst ==
  [][ \A k \in 1..Len(transitions') :
        transitions'[k][4] = "admit" =>
          LET at == IndexOf(jobs', transitions'[k][1])
          IN \A j \in 1..Len(jobs') :
               StatusAt(transitions', k - 1, Seen(jobs, nextId, jobs'[j].id), jobs'[j].id)
                 = "pending" => at <= j
    ]_vars

\* a settle has admitted a retried job ahead of a pending job inserted after
\* it, while a job inserted between the two is already processing
C13_Witness ==
  /\ event.kind = "settle"
  /\ \E k \in 1..Len(transitions) :
       /\ transitions[k][4] = "admit"
       /\ LET at == IndexOf(jobs, transitions[k][1])
          IN \E c, b \in 1..Len(jobs) :
               /\ at < c /\ c < b
               /\ jobs[c].status = "processing"
               /\ jobs[b].status = "pending"

\* C14: in every reachable state between handlers, and in every state in
\* which a handler enabled there calls startNextJobs, a second call right
\* after the first yields the state the first call yielded: same jobs, same
\* active-worker count, same runs in flight, nothing further logged.
C14_Idempotent ==
  \A S \in {Cur} \cup CallSites :
    startNextJobs(startNextJobs(S)) = startNextJobs(S)

\* one call of startNextJobs has started two jobs and left a third pending
C14_Witness ==
  /\ event.kind = "addFiles"
  /\ Cardinality({k \in 1..Len(transitions) : transitions[k][4] = "admit"}) = 2
  /\ WithStatus(jobs, "pending") # {}

\* C15: a step in which a run settles with failure sets that job to error with
\* a message and leaves its file, preview and result alone; every other job
\* keeps its result and error, and keeps its status unless it is the oldest
\* pending job, which becomes processing; no job enters or leaves the store;
\* the failed run is no longer in flight, the active-worker count has not
\* grown and equals the number of processing jobs; and a job that was pending
\* has been admitted.
C15_ErrorIsolation ==
  [][ (event'.kind = "settle" /\ transitions'[1] = <<event'.id, "processing", "error", "settle">>)
      => LET i == IndexOf(jobs, event'.id) IN
         /\ Ids(jobs') = Ids(jobs) /\ Len(jobs') = Len(jobs)
         /\ jobs'[i] = [jobs[i] EXCEPT !.status = "error", !.error = jobs'[i].error]
         /\ jobs'[i].error # <<>>
         /\ \A k \in (1..Len(jobs)) \ {i} :
              /\ jobs'[k] = [jobs[k] EXCEPT !.status = jobs'[k].status]
              /\ \/ jobs'[k].status = jobs[k].status
                 \/ /\ k = FirstPending(jobs)
                    /\ jobs[k].status = "pending" /\ jobs'[k].status = "processing"
         /\ workers'[event'.id] = 0
         /\ \A w \in JobIds \ {event'.id} : workers'[w] >= workers[w]
         /\ activeWorkers' <= activeWorkers
         /\ activeWorkers' = NumWith(jobs', "processing")
         /\ WithStatus(jobs, "pending") # {}
              => jobs'[FirstPending(jobs)].status = "processing"
    ]_vars

\* a run has failed next to a finished job and a running one, and the waiting
\* job was admitted
C15_Witness ==
  /\ event.kind = "settle"
  /\ transitions[1] = <<event.id, "processing", "error", "settle">>
  /\ Len(transitions) = 2 /\ transitions[2][4] = "admit"
  /\ \E k \in 1..Len(jobs) : jobs[k].status = "ready" /\ jobs[k].resultUrl # <<>>
  /\ \E k \in 1..Len(jobs) :
       /\ jobs[k].status = "processing"
       /\ jobs[k].id # transitions[2][1]

\* C16: in every state between handlers the summary's active count is the
\* number of pending or processing jobs of the store, its ready count and
\* readyJobCount are the number of ready jobs, its error count is the number
\* of error jobs, and the three counts add up to the number of jobs.
C16_SummaryMatchesStore ==
  /\ summary.active = NumWith(jobs, "pending") + NumWith(jobs, "processing")
  /\ summary.done = NumWith(jobs, "ready")
  /\ readyJobCount = NumWith(jobs, "ready")
  /\ summary.error = NumWith(jobs, "error")
  /\ summary.active + summary.done + summary.error = Len(jobs)

\* a run has settled and the store holds one job of each count
C16_Witness ==
  /\ event.kind = "settle"
  /\ summary = [active |-> 1, done |-> 1, error |-> 1]

\* C17 as stated: while an export is between its start and its finally block
\* the download-all button is disabled, and a click on the button when it is
\* not disabled never starts an export next to one that is under way.
C17_SingleExport ==
  [][ /\ exports' # <<>> => button'.disabled
      /\ (event'.kind = "downloadAll" /\ ~button.disabled) => Len(exports') <= 1
    ]_vars

\* C19: in every state between handlers activeWorkers is the number of jobs
\* of the store with status processing and is not negative; and for every run
\* in flight and every way it can settle, activeWorkers - 1 is not negative
\* where runJob takes the maximum of it and 0.
C19_ActiveWorkersExact ==
  /\ activeWorkers = NumWith(jobs, "processing")
  /\ activeWorkers >= 0
  /\ \A id \in JobIds :
       workers[id] > 0 =>
         \A outcome \in QueueOutcomes :
           /\ runJobOutcome(Cur, id, outcome).activeWorkers - 1 >= 0
           /\ releaseWorker(runJobOutcome(Cur, id, outcome)).activeWorkers
                = activeWorkers - 1

\* one of two runs has settled with nothing waiting: one run is counted
C19_Witness ==
  /\ event.kind = "settle"
  /\ transitions # <<>>
  /\ \A k \in 1..Len(transitions) : transitions[k][4] # "admit"
  /\ activeWorkers = 1
  /\ NumWith(jobs, "processing") = 1

\* C18 as stated: when every run settles, a pending job does not stay pending
\* for ever: it enters processing or is removed.
C18_Original == \A id \in JobIds : Pending(id) ~> ~Pending(id)

\* C18: when every run settles, a pending job enters processing or is removed
\* unless jobs inserted before it are retried again and again; additions and
\* retries of jobs inserted after it do not keep it waiting.
C18_NoStarvationByLaterJobs ==
  \A id \in JobIds : Pending(id) ~> (~Pending(id) \/ OlderRetried(id))

\* a settle has admitted the fourth job of the store, which had been waiting
C18_Witness ==
  /\ event.kind = "settle"
  /\ Len(jobs) >= 4
  /\ \E k \in 1..Len(transitions) :
       transitions[k] = <<jobs[4].id, "pending", "processing", "admit">>

====
